---------------------------- MODULE Spec2Model ----------------------------
(***************************************************************************)
(* Model of compress-districts.py: the property compressor, the coordinate *)
(* rounder, the file transform pipeline and the batch runner.              *)
(*                                                                         *)
(* JSON values are modelled as follows.                                    *)
(*  - A scalar property value is its JSON literal text: "null" is JSON     *)
(*    null, "\"\"" the empty string, "\"12345\"" a string, "30.2" a number.*)
(*  - A key is its text with every non-ASCII character written as a JSON   *)
(*    \uXXXX escape (the module text is ASCII).                            *)
(*  - A Python dict is the sequence of its <<key, value>> entries in       *)
(*    insertion order, keys pairwise distinct.                             *)
(***************************************************************************)
EXTENDS Integers, Sequences, FiniteSets, TLC

VARIABLES
    props,       \* SpecProps: the argument of compress_properties
    compressed,  \* SpecProps: compress_properties(props)
    again,       \* SpecProps: compress_properties(compressed)
    ppc,         \* SpecProps: "input", "once", "twice" ("off" elsewhere)
    coords,      \* SpecCoords: the argument of round_coordinates
    rounded,     \* SpecCoords: its outcome, a value or a raised exception
    cpc,         \* SpecCoords: "build", "done" ("off" elsewhere)

    docIn,       \* SpecDoc: the parsed document handed to the transform
    docOut,      \* SpecDoc: the outcome of the transform
    written,     \* SpecDoc: the file content written from docOut
    dpc,         \* SpecDoc: "parsed", "transformed", "saved", "failed"
    dirExists,   \* Spec: data/districts exists
    disk,        \* Spec: file name -> file content, the files of the directory
    disk0,       \* Spec: the directory as it was when the run started
    geojson_files, \* Spec: main's sorted list of matching files
    idx,         \* Spec: position of the for loop in geojson_files
    data,        \* Spec: the document compress_geojson holds
    total_original,   \* Spec: main's running total
    total_compressed, \* Spec: main's running total
    stdout,      \* Spec: the lines printed so far
    opened,      \* Spec: the files opened so far, with the mode
    pc           \* Spec: main's position ("off" elsewhere)

propVars == <<props, compressed, again, ppc>>
coordVars == <<coords, rounded, cpc>>
docVars == <<docIn, docOut, written, dpc>>
runVars == <<dirExists, disk, disk0, geojson_files, idx, data, total_original,
             total_compressed, stdout, opened, pc>>
vars == <<propVars, coordVars, docVars, runVars>>

----------------------------------------------------------------------------
(* Bounds of the model *)

\* the largest number of entries of a generated properties mapping
MaxProps == 3
\* the largest number of numbers of a generated position
MaxWidth == 2
\* the deepest nesting of a generated coordinate tree
MaxDepth == 3
\* the largest number of features of a generated document
MaxFeatures == 2
\* the bytes of insignificant whitespace of a file that is not compact
MaxPad == 9

----------------------------------------------------------------------------
(* JSON scalars *)

Null == "null"
Empty == "\"\""

\* "Nombre cientifico" with i-acute (U+00ED), the key the data files use
NombreCientifico == "Nombre cient\\u00edfico"
\* the key as the source file spells it: U+221A U+2260 in place of U+00ED
NombreCientificoSrc == "Nombre cient\\u221a\\u2260fico"

----------------------------------------------------------------------------
(* PROPERTY_MAP: long key -> Rename(short key) | Remove (Python None) *)

Rename(short) == [remove |-> FALSE, short |-> short]
Remove == [remove |-> TRUE, short |-> ""]

\* a plausible slip: a short key that is itself a long key of the table
PROPERTY_MAP_Chained ==
    [k \in {NombreCientificoSrc, "CODIGO_ESP", "diameter", "height", "NBRE_DTO",
            "NBRE_BARRI", "species", "common_name", "ASSETNUM", "NUM_DTO",
            "NUM_BARRIO", "sn"} |->
        CASE k = NombreCientificoSrc -> Rename("sn")
          [] k = "CODIGO_ESP" -> Rename("cn")
          [] k = "diameter" -> Rename("d")
          [] k = "height" -> Rename("h")
          [] k = "NBRE_DTO" -> Rename("dt")
          [] k = "NBRE_BARRI" -> Rename("nb")
          [] k = "species" -> Rename("sn")
          [] k = "common_name" -> Rename("cn")
          [] k = "sn" -> Rename("species")
          [] OTHER -> Remove]

PROPERTY_MAP ==
    [k \in {NombreCientificoSrc, "CODIGO_ESP", "diameter", "height", "NBRE_DTO",
            "NBRE_BARRI", "species", "common_name", "ASSETNUM", "NUM_DTO",
            "NUM_BARRIO"} |->
        CASE k = NombreCientificoSrc -> Rename("sn")
          [] k = "CODIGO_ESP" -> Rename("cn")
          [] k = "diameter" -> Rename("d")
          [] k = "height" -> Rename("h")
          [] k = "NBRE_DTO" -> Rename("dt")
          [] k = "NBRE_BARRI" -> Rename("nb")
          [] k = "species" -> Rename("sn")
          [] k = "common_name" -> Rename("cn")
          [] k = "ASSETNUM" -> Remove
          [] k = "NUM_DTO" -> Remove
          [] k = "NUM_BARRIO" -> Remove]

----------------------------------------------------------------------------
(* Python dicts as entry sequences *)

DictKeys(d) == {d[i][1] : i \in DOMAIN d}

IsDict(d) == \A i, j \in DOMAIN d : d[i][1] = d[j][1] => i = j

DictGet(d, k) == d[CHOOSE i \in DOMAIN d : d[i][1] = k][2]

\* a plausible slip: the first value stored under a key is kept
DictSetFirstWins(d, k, v) ==
    IF k \in DictKeys(d) THEN d ELSE Append(d, <<k, v>>)

\* compressed[short_key] = value: an existing key keeps its position and
\* takes the new value, a new key is appended
DictSet(d, k, v) ==
    IF k \in DictKeys(d)
    THEN [i \in DOMAIN d |-> IF d[i][1] = k THEN <<k, v>> ELSE d[i]]
    ELSE Append(d, <<k, v>>)

----------------------------------------------------------------------------
(* compress_properties *)

\* a plausible slip: only None is skipped
SkipValueNoneOnly(value) == value = Null

\* value is None or value == ""
SkipValue(value) == value = Null \/ value = Empty

\* lines 42-49: the output key of an entry, or skip when mapped to None
ShortKey(key) ==
    IF key \in DOMAIN PROPERTY_MAP
    THEN IF PROPERTY_MAP[key].remove
         THEN [skip |-> TRUE, key |-> key]
         ELSE [skip |-> FALSE, key |-> PROPERTY_MAP[key].short]
    ELSE [skip |-> FALSE, key |-> key]

\* the body of the for loop, entries i..Len(items) still to visit
RECURSIVE CompressLoop(_, _, _)
CompressLoop(items, i, acc) ==
    IF i > Len(items) THEN acc
    ELSE LET key == items[i][1]
             value == items[i][2]
             sk == ShortKey(key)
         IN  IF SkipValue(value) \/ sk.skip
             THEN CompressLoop(items, i + 1, acc)
             ELSE CompressLoop(items, i + 1, DictSet(acc, sk.key, value))

\* a properties value: JSON null or a dict
PNull == [tag |-> "null", d |-> <<>>]
PDict(d) == [tag |-> "dict", d |-> d]

compress_properties(p) ==
    IF p.tag = "null" \/ p.d = <<>> THEN <<>> ELSE CompressLoop(p.d, 1, <<>>)

----------------------------------------------------------------------------
(* Coordinate trees.  A number is its value in units of 10^-7 (an integer); *)
(* a list is the sequence of its elements.  The numbers of the model are   *)
(* those the float rounding treats exactly: a decimal with at most seven   *)
(* places that is not a tie at the sixth place, or a tie that is a dyadic  *)
(* rational (a multiple of 78125 units, j/128) and so an exact float.      *)

Num(v) == [list |-> FALSE, v |-> v, items |-> <<>>]
List(items) == [list |-> TRUE, v |-> 0, items |-> items]

Abs(n) == IF n < 0 THEN -n ELSE n

\* round(c, 6): to the nearest multiple of 10^-6, a tie to the even one
Round6(n) ==
    LET a == Abs(n)
        q == a \div 10
        r == a % 10
        up == IF r > 5 \/ (r = 5 /\ q % 2 = 1) THEN q + 1 ELSE q
    IN  IF n < 0 THEN -(up * 10) ELSE up * 10

\* the outcome of a call: a returned value or a raised exception
Ok(val) == [ok |-> TRUE, val |-> val, exc |-> ""]
Raise(exc) == [ok |-> FALSE, val |-> <<>>, exc |-> exc]

\* the first failed outcome of a sequence of outcomes, in evaluation order
FirstFailure(rs) == rs[CHOOSE i \in DOMAIN rs : ~rs[i].ok /\ \A j \in 1..(i - 1) : rs[j].ok]

\* a plausible slip: nested lists are returned as they are, not recursed into
round_coordinates_flat(c) ==
    IF ~c.list THEN Raise("TypeError")
    ELSE IF c.items = <<>> THEN Raise("IndexError")
    ELSE IF c.items[1].list THEN Ok(c)
    ELSE IF \E i \in DOMAIN c.items : c.items[i].list THEN Raise("TypeError")
    ELSE Ok(List([i \in DOMAIN c.items |-> Num(Round6(c.items[i].v))]))

\* round_coordinates(coords): coords[0] raises TypeError on a number and
\* IndexError on an empty list; round() raises TypeError on a list
RECURSIVE round_coordinates(_)
round_coordinates(c) ==
    IF ~c.list THEN Raise("TypeError")
    ELSE IF c.items = <<>> THEN Raise("IndexError")
    ELSE IF c.items[1].list
    THEN LET rs == [i \in DOMAIN c.items |-> round_coordinates(c.items[i])]
         IN  IF \E i \in DOMAIN rs : ~rs[i].ok
             THEN FirstFailure(rs)
             ELSE Ok(List([i \in DOMAIN rs |-> rs[i].val]))
    ELSE IF \E i \in DOMAIN c.items : c.items[i].list
    THEN Raise("TypeError")
    ELSE Ok(List([i \in DOMAIN c.items |-> Num(Round6(c.items[i].v))]))

----------------------------------------------------------------------------
(* Inputs of the coordinate rounder *)

\* -74.0821234, 4.6097654 (scenario 3, seven places), the ties 0.0078125 and
\* -0.0234375, 1.1234568 (scenario 4) and 2.0
CoordNumbers == {-740821234, 46097654, 78125, -234375, 11234568, 20000000}

Positions ==
    {List(s) : s \in UNION {[1..n -> {Num(v) : v \in CoordNumbers}] : n \in 0..MaxWidth}}

SetMax(S) == CHOOSE m \in S : \A n \in S : n <= m

\* the deepest nesting of lists in a tree
RECURSIVE Depth(_)
Depth(c) ==
    IF ~c.list THEN 0
    ELSE 1 + SetMax({0} \cup {Depth(c.items[i]) : i \in DOMAIN c.items})

\* the tree with every number negated: a sibling of the same shape
RECURSIVE Mirror(_)
Mirror(c) ==
    IF ~c.list THEN Num(-c.v) ELSE List([i \in DOMAIN c.items |-> Mirror(c.items[i])])

\* the siblings a tree is nested with: well-formed ones and malformed ones
Siblings(c) == {c, Mirror(c), List(<<>>), Num(78125)}

----------------------------------------------------------------------------
(* Documents.  A feature and a geometry carry their other members as a dict *)
(* of JSON literals; properties and geometry are absent, null or present.  *)

PAbsent == [tag |-> "absent", d |-> <<>>]

GAbsent == [tag |-> "absent", other |-> <<>>, hasCoords |-> FALSE, coordinates |-> List(<<>>)]
GNull == [tag |-> "null", other |-> <<>>, hasCoords |-> FALSE, coordinates |-> List(<<>>)]
GObj(other, c) == [tag |-> "obj", other |-> other, hasCoords |-> TRUE, coordinates |-> c]
GNoCoords(other) == [tag |-> "obj", other |-> other, hasCoords |-> FALSE, coordinates |-> List(<<>>)]

Feature(other, p, g) == [other |-> other, properties |-> p, geometry |-> g]
Doc(other, fs) == [other |-> other, hasFeatures |-> TRUE, features |-> fs]
DocNoFeatures(other) == [other |-> other, hasFeatures |-> FALSE, features |-> <<>>]

\* 'geometry' in feature and feature['geometry']: None and {} are falsy
GeometryTruthy(g) == g.tag = "obj" /\ (g.other # <<>> \/ g.hasCoords)

\* a plausible slip: a feature without properties gains an empty mapping
CompressFeatureProperties_Get(f) ==
    [f EXCEPT !.properties = PDict(compress_properties(
        IF f.properties.tag = "absent" THEN PNull ELSE f.properties))]

\* lines 72-73
CompressFeatureProperties(f) ==
    IF f.properties.tag # "absent"
    THEN [f EXCEPT !.properties = PDict(compress_properties(f.properties))]
    ELSE f

\* lines 76-80, after lines 72-73
TransformFeature(f) ==
    LET f2 == CompressFeatureProperties(f)
        g == f.geometry
    IN  IF GeometryTruthy(g) /\ g.hasCoords
        THEN LET r == round_coordinates(g.coordinates)
             IN  IF r.ok
                 THEN Ok([f2 EXCEPT !.geometry.coordinates = r.val])
                 ELSE Raise(r.exc)
        ELSE Ok(f2)

\* lines 69-80: the features in order, the first exception ends the loop
TransformDoc(doc) ==
    IF doc.hasFeatures
    THEN LET rs == [i \in DOMAIN doc.features |-> TransformFeature(doc.features[i])]
         IN  IF \E i \in DOMAIN rs : ~rs[i].ok
             THEN FirstFailure(rs)
             ELSE Ok([doc EXCEPT !.features = [i \in DOMAIN rs |-> rs[i].val]])
    ELSE Ok(doc)

----------------------------------------------------------------------------
(* Files: the bytes of json.dump(data, f, separators=(',', ':'),           *)
(* ensure_ascii=False) and of a file on disk                               *)

RECURSIVE SumSeq(_)
SumSeq(s) == IF s = <<>> THEN 0 ELSE Head(s) + SumSeq(Tail(s))

\* the commas of a JSON array or object of n members
Commas(n) == IF n = 0 THEN 0 ELSE n - 1

\* UTF-8 bytes of a key: a \uXXXX escape of the model is one character
Utf8Len(k) ==
    CASE k = NombreCientifico -> 18
      [] k = NombreCientificoSrc -> 22
      [] OTHER -> Len(k)

RECURSIVE DecimalDigits(_)
DecimalDigits(n) == IF n < 10 THEN 1 ELSE 1 + DecimalDigits(n \div 10)

RECURSIVE FractionDigits(_, _)
FractionDigits(frac, places) ==
    IF frac = 0 THEN 1
    ELSE IF frac % 10 = 0 THEN FractionDigits(frac \div 10, places - 1)
    ELSE places

\* the length of repr(x) for the float of v units: zero, or 0.0001 and more
NumLen(v) ==
    (IF v < 0 THEN 1 ELSE 0) + DecimalDigits(Abs(v) \div 10000000) + 1
    + FractionDigits(Abs(v) % 10000000, 7)

RECURSIVE TreeSize(_)
TreeSize(c) ==
    IF ~c.list THEN NumLen(c.v)
    ELSE 2 + Commas(Len(c.items))
         + SumSeq([i \in DOMAIN c.items |-> TreeSize(c.items[i])])

\* a member "key":value of valueSize bytes
MemberSize(key, valueSize) == Utf8Len(key) + 2 + 1 + valueSize

\* an object of members of the given sizes
ObjectSize(memberSizes) == 2 + Commas(Len(memberSizes)) + SumSeq(memberSizes)

DictMembers(d) == [i \in DOMAIN d |-> MemberSize(d[i][1], Len(d[i][2]))]

GeometrySize(g) ==
    IF g.tag = "null" THEN 4
    ELSE ObjectSize(DictMembers(g.other) \o
            (IF g.hasCoords
             THEN <<MemberSize("coordinates", TreeSize(g.coordinates))>>
             ELSE <<>>))

PropertiesSize(p) == IF p.tag = "null" THEN 4 ELSE ObjectSize(DictMembers(p.d))

FeatureSize(f) ==
    ObjectSize(DictMembers(f.other) \o
        (IF f.properties.tag # "absent"
         THEN <<MemberSize("properties", PropertiesSize(f.properties))>> ELSE <<>>) \o
        (IF f.geometry.tag # "absent"
         THEN <<MemberSize("geometry", GeometrySize(f.geometry))>> ELSE <<>>))

DumpSize(doc) ==
    ObjectSize(DictMembers(doc.other) \o
        (IF doc.hasFeatures
         THEN <<MemberSize("features",
                  2 + Commas(Len(doc.features))
                  + SumSeq([i \in DOMAIN doc.features |-> FeatureSize(doc.features[i])]))>>
         ELSE <<>>))

\* a file: valid JSON of a document plus pad bytes of insignificant
\* whitespace, or pad bytes that are no JSON
JsonFile(doc, pad) == [valid |-> TRUE, doc |-> doc, pad |-> pad]
BrokenFile(pad) == [valid |-> FALSE, doc |-> DocNoFeatures(<<>>), pad |-> pad]

\* st_size
FileSize(file) == IF file.valid THEN DumpSize(file.doc) + file.pad ELSE file.pad

\* json.load(f)
JsonLoad(file) == IF file.valid THEN Ok(file.doc) ELSE Raise("JSONDecodeError")

\* json.dump(data, f, separators=(',', ':'), ensure_ascii=False) into a file
\* opened with 'w'
JsonDump(doc) == JsonFile(doc, 0)

----------------------------------------------------------------------------
(* Inputs of the property compressor *)

PropKeys == {NombreCientifico, NombreCientificoSrc, "species", "sn",
             "ASSETNUM", "height"}
PropValues == {Null, Empty, "\"Ceiba pentandra\"", "30.2"}

\* spec section 8, concrete scenarios 1 and 2
Scenario1 == <<<<NombreCientifico, "\"Ceiba pentandra\"">>,
               <<"ASSETNUM", "\"12345\"">>, <<"height", "30.2">>>>
Scenario2 == <<<<"diameter", Empty>>, <<"NUM_DTO", "\"7\"">>>>

DictsOfLen(n) ==
    {d \in [1..n -> PropKeys \X PropValues] : IsDict(d)}

PropInputs ==
    {PNull} \cup {PDict(Scenario1), PDict(Scenario2)}
    \cup {PDict(d) : d \in UNION {DictsOfLen(n) : n \in 0..MaxProps}}

----------------------------------------------------------------------------
(* Inputs of the file transform *)

FeatureCollection == <<<<"type", "\"FeatureCollection\"">>>>
WithCrs == <<<<"type", "\"FeatureCollection\"">>, <<"crs", "{\"type\":\"name\"}">>>>
FeatureType == <<<<"type", "\"Feature\"">>>>
TypeOf(t) == <<<<"type", t>>>>

TreeProps ==
    PDict(<<<<"species", "\"Ceiba pentandra\"">>, <<"ASSETNUM", "\"12345\"">>,
            <<"diameter", Empty>>, <<"height", "30.2">>>>)
ShortProps == PDict(<<<<"h", "30.2">>>>)

PointCoords == List(<<Num(-740821234), Num(46097654)>>)
PolygonCoords ==
    List(<<List(<<List(<<Num(11234568), Num(20000000)>>),
                  List(<<Num(30000000), Num(41234568)>>)>>)>>)

PropsSamples == {PAbsent, PNull, TreeProps, ShortProps}
GeometrySamples ==
    {GAbsent, GNull, GNoCoords(<<>>), GNoCoords(TypeOf("\"GeometryCollection\"")),
     GObj(TypeOf("\"Point\""), PointCoords),
     GObj(TypeOf("\"Polygon\""), PolygonCoords),
     GObj(TypeOf("\"Point\""), List(<<>>))}

FeatureInputs ==
    {Feature(FeatureType, p, g) : p \in PropsSamples, g \in GeometrySamples}

\* the i-th feature of a document carries the member "id": i
WithId(f, i) == [f EXCEPT !.other = f.other \o <<<<"id", ToString(i)>>>>]

DocInputs ==
    {DocNoFeatures(o) : o \in {FeatureCollection, WithCrs}}
    \cup {Doc(o, [i \in DOMAIN fs |-> WithId(fs[i], i)]) :
             o \in {FeatureCollection, WithCrs},
             fs \in UNION {[1..n -> FeatureInputs] : n \in 0..MaxFeatures}}

----------------------------------------------------------------------------
(* The directory data/districts *)

\* a file name: stem, then digits, then suffix
FileName(stem, mid, suffix) == [stem |-> stem, mid |-> mid, suffix |-> suffix]

\* a plausible slip: the pattern 'district_*'
GlobMatchesStem(name) == name.stem = "district_"

\* districts_dir.glob('district_*.geojson')
GlobMatches(name) == name.stem = "district_" /\ name.suffix = ".geojson"

\* the order of the path strings of two matching names: the first differing
\* digit decides, and a name that ends first is followed by '.', which sorts
\* before every digit
RECURSIVE DigitsLess(_, _)
DigitsLess(a, b) ==
    IF a = <<>> THEN b # <<>>
    ELSE IF b = <<>> THEN FALSE
    ELSE IF Head(a) # Head(b) THEN Head(a) < Head(b)
    ELSE DigitsLess(Tail(a), Tail(b))

\* a plausible slip: the glob result is used in directory order, not sorted
RECURSIVE Unsorted(_)
Unsorted(S) ==
    IF S = {} THEN <<>>
    ELSE LET last == CHOOSE f \in S : \A g \in S : g.mid = f.mid \/ DigitsLess(f.mid, g.mid)
         IN  Append(Unsorted(S \ {last}), last)

\* sorted(...)
RECURSIVE Sorted(_)
Sorted(S) ==
    IF S = {} THEN <<>>
    ELSE LET first == CHOOSE f \in S : \A g \in S : g.mid = f.mid \/ DigitsLess(f.mid, g.mid)
         IN  <<first>> \o Sorted(S \ {first})

DistrictNames ==
    {FileName("district_", m, ".geojson") : m \in {<<1>>, <<1, 0>>, <<2>>}}
OtherNames == {FileName("district_", <<1>>, ".json")}

BatchDocs ==
    {Doc(FeatureCollection,
         <<Feature(FeatureType, TreeProps, GObj(TypeOf("\"Point\""), PointCoords))>>),
     Doc(WithCrs,
         <<Feature(FeatureType, PAbsent, GNull),
           Feature(FeatureType, ShortProps, GObj(TypeOf("\"Polygon\""), PolygonCoords))>>),
     DocNoFeatures(FeatureCollection),
     Doc(FeatureCollection,
         <<Feature(FeatureType, PNull, GObj(TypeOf("\"Point\""), List(<<>>)))>>)}

FileSamples ==
    {JsonFile(d, pad) : d \in BatchDocs, pad \in {0, MaxPad}} \cup {BrokenFile(MaxPad)}

Directories ==
    UNION {[D \cup O -> FileSamples] : D \in SUBSET DistrictNames, O \in SUBSET OtherNames}

\* reduction = (1 - compressed / original) * 100, a float printed with one
\* decimal.  The float arithmetic and its formatting are not computed here:
\* the value is kept as the two byte counts that determine it.  It is 0.0
\* exactly when the two are equal.
Reduction(orig, comp) == [minuend |-> orig, subtrahend |-> comp, zero |-> orig = comp]

\* main, line 118
OutputFile(input_file) == input_file

----------------------------------------------------------------------------
(* SpecProps: compress_properties applied once and twice *)

PropsIdle ==
    /\ props = PNull
    /\ compressed = <<>>
    /\ again = <<>>
    /\ ppc = "off"

CoordsIdle ==
    /\ coords = List(<<>>)
    /\ rounded = Raise("")
    /\ cpc = "off"

DocIdle ==
    /\ docIn = DocNoFeatures(<<>>)
    /\ docOut = Raise("")
    /\ written = BrokenFile(0)
    /\ dpc = "off"

RunIdle ==
    /\ dirExists = FALSE
    /\ disk = <<>>
    /\ disk0 = <<>>
    /\ geojson_files = <<>>
    /\ idx = 0
    /\ data = DocNoFeatures(<<>>)
    /\ total_original = 0
    /\ total_compressed = 0
    /\ stdout = <<>>
    /\ opened = {}
    /\ pc = "off"

InitProps ==
    /\ props \in PropInputs
    /\ compressed = <<>>
    /\ again = <<>>
    /\ ppc = "input"
    /\ CoordsIdle /\ DocIdle /\ RunIdle

CompressOnce ==
    /\ ppc = "input"
    /\ compressed' = compress_properties(props)
    /\ ppc' = "once"
    /\ UNCHANGED <<props, again, coordVars, docVars, runVars>>

CompressTwice ==
    /\ ppc = "once"
    /\ again' = compress_properties(PDict(compressed))
    /\ ppc' = "twice"
    /\ UNCHANGED <<props, compressed, coordVars, docVars, runVars>>

NextProps == CompressOnce \/ CompressTwice

SpecProps == InitProps /\ [][NextProps]_vars

----------------------------------------------------------------------------
(* SpecCoords: a coordinate tree is built and round_coordinates applied *)

InitCoords ==
    /\ coords \in Positions \cup {Num(v) : v \in CoordNumbers}
    /\ rounded = Raise("")
    /\ cpc = "build"
    /\ PropsIdle /\ DocIdle /\ RunIdle

\* the tree becomes the only element of a list
Nest ==
    /\ cpc = "build"
    /\ Depth(coords) < MaxDepth
    /\ coords' = List(<<coords>>)
    /\ UNCHANGED <<rounded, cpc, propVars, docVars, runVars>>

\* the tree becomes one of two elements of a list
NestWith ==
    /\ cpc = "build"
    /\ Depth(coords) < MaxDepth
    /\ \E sib \in Siblings(coords) :
          \/ coords' = List(<<coords, sib>>)
          \/ coords' = List(<<sib, coords>>)
    /\ UNCHANGED <<rounded, cpc, propVars, docVars, runVars>>

RoundCoords ==
    /\ cpc = "build"
    /\ rounded' = round_coordinates(coords)
    /\ cpc' = "done"
    /\ UNCHANGED <<coords, propVars, docVars, runVars>>

NextCoords == Nest \/ NestWith \/ RoundCoords

SpecCoords == InitCoords /\ [][NextCoords]_vars

----------------------------------------------------------------------------
(* SpecDoc: the transform of compress_geojson on one parsed document *)

InitDoc ==
    /\ docIn \in DocInputs
    /\ docOut = Raise("")
    /\ written = BrokenFile(0)
    /\ dpc = "parsed"
    /\ PropsIdle /\ CoordsIdle /\ RunIdle

\* lines 68-80
TransformStep ==
    /\ dpc = "parsed"
    /\ docOut' = TransformDoc(docIn)
    /\ dpc' = IF docOut'.ok THEN "transformed" ELSE "failed"
    /\ UNCHANGED <<docIn, written, propVars, coordVars, runVars>>

\* lines 82-84
SaveStep ==
    /\ dpc = "transformed"
    /\ written' = JsonDump(docOut.val)
    /\ dpc' = "saved"
    /\ UNCHANGED <<docIn, docOut, propVars, coordVars, runVars>>

NextDoc == TransformStep \/ SaveStep

SpecDoc == InitDoc /\ [][NextDoc]_vars

----------------------------------------------------------------------------
(* Spec: main, the batch runner, on a directory *)

Init ==
    /\ dirExists \in BOOLEAN
    /\ disk \in (IF dirExists THEN Directories ELSE {<<>>})
    /\ disk0 = disk
    /\ geojson_files = <<>>
    /\ idx = 0
    /\ data = DocNoFeatures(<<>>)
    /\ total_original = 0
    /\ total_compressed = 0
    /\ stdout = <<>>
    /\ opened = {}
    /\ pc = "main"
    /\ PropsIdle /\ CoordsIdle /\ DocIdle

input_file == geojson_files[idx]

Emit(lines) == stdout' = stdout \o lines

\* lines 98-115: the directory test, the sorted glob, the empty test
Discover ==
    /\ pc = "main"
    /\ IF ~dirExists
       THEN /\ Emit(<<[line |-> "Error: Districts directory not found"]>>)
            /\ pc' = "done"
            /\ UNCHANGED <<geojson_files, idx>>
       ELSE LET files == Sorted({f \in DOMAIN disk : GlobMatches(f)})
            IN  /\ geojson_files' = files
                /\ IF files = <<>>
                   THEN /\ Emit(<<[line |-> "No district GeoJSON files found!"]>>)
                        /\ pc' = "done"
                        /\ idx' = idx
                   ELSE /\ Emit(<<[line |-> "Found", count |-> Len(files)],
                                   [line |-> ""]>>)
                        /\ pc' = "load"
                        /\ idx' = 1
    /\ UNCHANGED <<dirExists, disk, disk0, data, total_original, total_compressed, opened>>
    /\ UNCHANGED <<propVars, coordVars, docVars>>

\* lines 63-66: the file is opened for reading and parsed
Load ==
    /\ pc = "load"
    /\ Emit(<<[line |-> "Compressing", name |-> input_file]>>)
    /\ opened' = opened \cup {[name |-> input_file, mode |-> "r"]}
    /\ LET r == JsonLoad(disk[input_file])
       IN  IF r.ok
           THEN data' = r.val /\ pc' = "transform"
           ELSE data' = data /\ pc' = "raised"
    /\ UNCHANGED <<dirExists, disk, disk0, geojson_files, idx, total_original,
                   total_compressed>>
    /\ UNCHANGED <<propVars, coordVars, docVars>>

\* lines 68-80
Transform ==
    /\ pc = "transform"
    /\ LET r == TransformDoc(data)
       IN  IF r.ok
           THEN data' = r.val /\ pc' = "save"
           ELSE data' = data /\ pc' = "raised"
    /\ UNCHANGED <<dirExists, disk, disk0, geojson_files, idx, total_original,
                   total_compressed, stdout, opened>>
    /\ UNCHANGED <<propVars, coordVars, docVars>>

\* lines 82-84: the output file is opened for writing and the document dumped
Save ==
    /\ pc = "save"
    /\ opened' = opened \cup {[name |-> OutputFile(input_file), mode |-> "w"]}
    /\ disk' = [disk EXCEPT ![OutputFile(input_file)] = JsonDump(data)]
    /\ pc' = "report"
    /\ UNCHANGED <<dirExists, disk0, geojson_files, idx, data, total_original,
                   total_compressed, stdout>>
    /\ UNCHANGED <<propVars, coordVars, docVars>>

\* lines 86-95 and 119-122: both sizes are read from the disk as it is now,
\* printed, returned and added to the totals
Report ==
    /\ pc = "report"
    /\ LET original_size == FileSize(disk[input_file])
           compressed_size == FileSize(disk[OutputFile(input_file)])
       IN  IF original_size = 0
           THEN /\ pc' = "raised"
                /\ UNCHANGED <<stdout, total_original, total_compressed, idx>>
           ELSE /\ Emit(<<[line |-> "Original", bytes |-> original_size],
                           [line |-> "Compressed", bytes |-> compressed_size],
                           [line |-> "Reduction",
                            reduction |-> Reduction(original_size, compressed_size)],
                           [line |-> ""]>>)
                /\ total_original' = total_original + original_size
                /\ total_compressed' = total_compressed + compressed_size
                /\ idx' = idx + 1
                /\ pc' = IF idx < Len(geojson_files) THEN "load" ELSE "summary"
    /\ UNCHANGED <<dirExists, disk, disk0, geojson_files, data, opened>>
    /\ UNCHANGED <<propVars, coordVars, docVars>>

\* lines 124-132
Summary ==
    /\ pc = "summary"
    /\ IF total_original = 0
       THEN pc' = "raised" /\ UNCHANGED stdout
       ELSE /\ Emit(<<[line |-> "COMPRESSION SUMMARY",
                        original |-> total_original,
                        compressed |-> total_compressed,
                        reduction |-> Reduction(total_original, total_compressed)]>>)
            /\ pc' = "done"
    /\ UNCHANGED <<dirExists, disk, disk0, geojson_files, idx, data, total_original,
                   total_compressed, opened>>
    /\ UNCHANGED <<propVars, coordVars, docVars>>

Next == Discover \/ Load \/ Transform \/ Save \/ Report \/ Summary

Spec == Init /\ [][Next]_vars

----------------------------------------------------------------------------
(* Claims about compress_properties (checked under SpecProps) *)

\* the entries of the argument, and those whose value is kept
InEntries == props.d
Kept(i) == InEntries[i][2] # Null /\ InEntries[i][2] # Empty

\* entry key is emitted under output key k according to the rename table
Resolves(key, k) ==
    IF key \in DOMAIN PROPERTY_MAP
    THEN ~PROPERTY_MAP[key].remove /\ PROPERTY_MAP[key].short = k
    ELSE key = k

\* the indices of the kept entries emitted under k
Sources(k) == {i \in DOMAIN InEntries : Kept(i) /\ Resolves(InEntries[i][1], k)}

\* C1 (as claimed): a key of P whose value is null or "" is never a key of
\* compress_properties(P), whatever else P holds.
C1_NullKeyAbsent ==
    ppc # "input" =>
        \A i \in DOMAIN InEntries :
            ~Kept(i) => InEntries[i][1] \notin DictKeys(compressed)

\* C1 (amended): no value of compress_properties(P) is null or "", and a key
\* of P whose value is null or "" is a key of the output only if another
\* entry of P with a non-null, non-empty value is emitted under that name.
C1_NullEntryDropped ==
    ppc # "input" =>
        /\ \A j \in DOMAIN compressed :
              compressed[j][2] # Null /\ compressed[j][2] # Empty
        /\ \A i \in DOMAIN InEntries :
              (~Kept(i) /\ InEntries[i][1] \in DictKeys(compressed))
                  => Sources(InEntries[i][1]) # {}

\* a null-valued key is dropped, and an empty-valued key is in the output
\* only because another entry is renamed to it
C1_Witness ==
    /\ ppc = "once"
    /\ \E i \in DOMAIN InEntries :
          /\ InEntries[i][2] = Null
          /\ InEntries[i][1] \notin DictKeys(compressed)
    /\ \E i \in DOMAIN InEntries :
          /\ InEntries[i] = <<"sn", Empty>>
          /\ "sn" \in DictKeys(compressed)

\* C3: the key "Nombre cientifico" (U+00ED) with a kept value is emitted under
\* "sn", ASSETNUM is omitted and height becomes h; scenario 1 yields exactly
\* {"sn": "Ceiba pentandra", "h": 30.2}.
C3_RenameTable ==
    ppc # "input" =>
        /\ \A i \in DOMAIN InEntries :
              (Kept(i) /\ InEntries[i][1] = NombreCientifico)
                  => /\ "sn" \in DictKeys(compressed)
                     /\ NombreCientifico \notin DictKeys(compressed)
        /\ \A i \in DOMAIN InEntries :
              (Kept(i) /\ InEntries[i][1] = "height") => "h" \in DictKeys(compressed)
        /\ "ASSETNUM" \notin DictKeys(compressed)
        /\ InEntries = Scenario1 =>
              compressed = <<<<"sn", "\"Ceiba pentandra\"">>, <<"h", "30.2">>>>

\* C5: no short key of the table is a long key of the table, and applying
\* compress_properties to its own result changes nothing.
C5_Idempotent ==
    /\ \A k \in DOMAIN PROPERTY_MAP :
          ~PROPERTY_MAP[k].remove => PROPERTY_MAP[k].short \notin DOMAIN PROPERTY_MAP
    /\ ppc = "twice" => again = compressed

\* the second pass ran on a result holding a renamed key and an unmapped key
C5_Witness ==
    /\ ppc = "twice"
    /\ \E i \in DOMAIN InEntries : Kept(i) /\ InEntries[i][1] = "species"
    /\ \E i \in DOMAIN InEntries : Kept(i) /\ InEntries[i][1] = NombreCientifico
    /\ Len(again) = 2

\* C6: every output key occurs once and carries the value of the last kept
\* entry emitted under it; every kept, non-removed entry is emitted.
C6_LastWins ==
    ppc # "input" =>
        /\ IsDict(compressed)
        /\ \A k \in DictKeys(compressed) :
              /\ Sources(k) # {}
              /\ DictGet(compressed, k) = InEntries[SetMax(Sources(k))][2]
        /\ \A i \in DOMAIN InEntries :
              \A k \in {"sn", "h", InEntries[i][1]} :
                  (Kept(i) /\ Resolves(InEntries[i][1], k)) => k \in DictKeys(compressed)

\* two kept entries with different values collide, followed by a null entry
\* of the same output name
C6_Witness ==
    /\ ppc = "once"
    /\ Len(InEntries) = 3
    /\ InEntries[1][1] = "species" /\ InEntries[2][1] = NombreCientificoSrc
    /\ Kept(1) /\ Kept(2) /\ InEntries[1][2] # InEntries[2][2]
    /\ InEntries[3] = <<"sn", Null>>
    /\ compressed = <<<<"sn", InEntries[2][2]>>>>

----------------------------------------------------------------------------
(* Claims about round_coordinates (checked under SpecCoords) *)

\* a non-empty list of numbers, or a non-empty list of such trees of one depth
RECURSIVE Uniform(_)
Uniform(c) ==
    /\ c.list
    /\ c.items # <<>>
    /\ \/ \A i \in DOMAIN c.items : ~c.items[i].list
       \/ \A i \in DOMAIN c.items :
             /\ Uniform(c.items[i])
             /\ Depth(c.items[i]) = Depth(c.items[1])

\* b has the shape of a, and each number of b is the number of a at the same
\* place rounded to six decimals (a multiple of 10 units, at most half a
\* step away, the even neighbour on a tie)
RECURSIVE RoundedLike(_, _)
RoundedLike(a, b) ==
    /\ a.list = b.list
    /\ Len(a.items) = Len(b.items)
    /\ IF a.list
       THEN \A i \in DOMAIN a.items : RoundedLike(a.items[i], b.items[i])
       ELSE /\ b.v % 10 = 0
            /\ Abs(b.v - a.v) <= 5
            /\ Abs(b.v - a.v) = 5 => (b.v \div 10) % 2 = 0

\* C2: round_coordinates([]) returns [] and does not fail.
C2_EmptyListReturnsEmpty ==
    (cpc = "done" /\ coords = List(<<>>)) => rounded = Ok(List(<<>>))

\* C8: for a non-empty, uniformly nested tree T, round_coordinates(T) returns
\* a tree of the same depth and the same element count at every level, each
\* number replaced by its rounding at the same position.
C8_ShapePreserved ==
    (cpc = "done" /\ Uniform(coords)) =>
        /\ rounded.ok
        /\ Depth(rounded.val) = Depth(coords)
        /\ RoundedLike(coords, rounded.val)

\* a three-level polygon of two positions of two numbers each was rounded,
\* one of its numbers a tie and one rounded away
C8_Witness ==
    /\ cpc = "done"
    /\ Uniform(coords)
    /\ Depth(coords) = 3
    /\ Len(coords.items) = 1
    /\ Len(coords.items[1].items) = 2
    /\ \A i \in 1..2 : Len(coords.items[1].items[i].items) = 2
    /\ coords.items[1].items[1].items[1] = Num(78125)
    /\ rounded.ok
    /\ rounded.val.items[1].items[1].items[1] = Num(78120)
    /\ rounded.val.items[1].items[2].items[1] = Num(-78120)

----------------------------------------------------------------------------
(* Claims about the file transform (checked under SpecDoc) *)

\* the document after the transform, in memory or as written
DocAfter == IF dpc = "saved" THEN written.doc ELSE docOut.val

\* C7: the transform changes only each feature's properties and each
\* feature's geometry.coordinates: the other top-level fields, the number and
\* order of the features, the other fields of a feature and of its geometry
\* are unchanged; a feature without properties still has none; a geometry
\* that is absent, null or without coordinates is unchanged.
C7_Frame ==
    dpc \in {"transformed", "saved"} =>
        /\ dpc = "saved" => (written.valid /\ written.doc = docOut.val)
        /\ DocAfter.other = docIn.other
        /\ DocAfter.hasFeatures = docIn.hasFeatures
        /\ Len(DocAfter.features) = Len(docIn.features)
        /\ \A i \in DOMAIN docIn.features :
              LET f == docIn.features[i]
                  g == DocAfter.features[i]
              IN  /\ g.other = f.other
                  /\ (g.properties.tag = "absent") = (f.properties.tag = "absent")
                  /\ f.properties.tag = "absent" => g.properties = f.properties
                  /\ g.geometry.tag = f.geometry.tag
                  /\ g.geometry.other = f.geometry.other
                  /\ g.geometry.hasCoords = f.geometry.hasCoords
                  /\ (f.geometry.tag # "obj" \/ ~f.geometry.hasCoords)
                        => g.geometry = f.geometry

\* a saved document with coordinate-reference metadata whose first feature
\* has no properties and a null geometry and whose second feature had its
\* properties and its coordinates rewritten
C7_Witness ==
    /\ dpc = "saved"
    /\ docIn.other = WithCrs
    /\ Len(docIn.features) = 2
    /\ docIn.features[1].properties = PAbsent
    /\ docIn.features[1].geometry = GNull
    /\ written.doc.features[1] = docIn.features[1]
    /\ docIn.features[2].properties = TreeProps
    /\ written.doc.features[2].properties # TreeProps
    /\ docIn.features[2].geometry.coordinates = PolygonCoords
    /\ written.doc.features[2].geometry.coordinates # PolygonCoords

----------------------------------------------------------------------------
(* Claims about the batch runner (checked under Spec) *)

\* the files main has finished with: sizes returned and added to the totals
Finished == IF idx = 0 THEN <<>> ELSE SubSeq(geojson_files, 1, idx - 1)

\* C4: the original size reported and added for a file is the byte length it
\* had before it was rewritten, the compressed size its byte length after;
\* the totals are the sums of these.
C4_OriginalIsSizeBefore ==
    /\ \A i \in DOMAIN stdout :
          stdout[i].line = "Original" =>
              /\ stdout[i].bytes = FileSize(disk0[stdout[i - 1].name])
              /\ stdout[i + 1].bytes = FileSize(disk[stdout[i - 1].name])
    /\ total_original = SumSeq([j \in DOMAIN Finished |-> FileSize(disk0[Finished[j]])])
    /\ total_compressed = SumSeq([j \in DOMAIN Finished |-> FileSize(disk[Finished[j]])])

\* the names of the directory, at the start of the run, that the pattern
\* district_*.geojson matches
Matching == {f \in DOMAIN disk0 : f.stem = "district_" /\ f.suffix = ".geojson"}

\* C9: without the directory, or without a matching file in it, the run
\* reports this and ends with no file opened or changed and no summary; a
\* file that does not match the pattern is never opened or changed.
C9_NothingToDo ==
    /\ (~dirExists \/ Matching = {}) =>
          /\ pc \in {"main", "done"}
          /\ opened = {}
          /\ disk = disk0
          /\ pc = "done" =>
                stdout = <<[line |-> IF dirExists
                                     THEN "No district GeoJSON files found!"
                                     ELSE "Error: Districts directory not found"]>>
    /\ \A f \in DOMAIN disk0 \ Matching :
          /\ disk[f] = disk0[f]
          /\ \A o \in opened : o.name # f

\* the run ended on a directory that holds only a file the pattern rejects
C9_Witness ==
    /\ pc = "done"
    /\ dirExists
    /\ DOMAIN disk0 = OtherNames
    /\ Matching = {}
    /\ Len(stdout) = 1

\* C10: the files are taken one at a time in sorted name order, each read,
\* transformed and written before the next is opened; when the k-th fails to
\* parse or to transform, the files before it are rewritten compact, the k-th
\* and the later ones are as they were, the k-th never opened for writing,
\* and no summary is printed.
C10_AbortLeavesRest ==
    pc \notin {"main", "off"} =>
        /\ {geojson_files[j] : j \in DOMAIN geojson_files} = Matching
        /\ \A j \in 1..(Len(geojson_files) - 1) :
              DigitsLess(geojson_files[j].mid, geojson_files[j + 1].mid)
        /\ \A j \in DOMAIN geojson_files :
              LET f == geojson_files[j]
              IN  /\ (j < idx \/ (j = idx /\ pc = "report")) =>
                        /\ disk0[f].valid
                        /\ disk[f] = JsonFile(TransformDoc(disk0[f].doc).val, 0)
                        /\ [name |-> f, mode |-> "w"] \in opened
                  /\ (j = idx /\ pc # "report") =>
                        /\ disk[f] = disk0[f]
                        /\ [name |-> f, mode |-> "w"] \notin opened
                  /\ j > idx =>
                        /\ disk[f] = disk0[f]
                        /\ \A o \in opened : o.name # f
        /\ pc = "raised" =>
              /\ idx \in DOMAIN geojson_files
              /\ ~disk0[input_file].valid \/ ~TransformDoc(disk0[input_file].doc).ok
              /\ \A i \in DOMAIN stdout : stdout[i].line # "COMPRESSION SUMMARY"

\* the second of three files failed in the transform after the first was
\* rewritten smaller
C10_Witness ==
    /\ pc = "raised"
    /\ Len(geojson_files) = 3
    /\ idx = 2
    /\ disk0[input_file].valid
    /\ FileSize(disk[geojson_files[1]]) < FileSize(disk0[geojson_files[1]])
    /\ disk[geojson_files[3]] = disk0[geojson_files[3]]

=============================================================================
